---- MODULE Spec2Model ----
(***************************************************************************)
(* moyurobot: the web controller's session arbiter (controller.py) and the *)
(* robot service's command gateway, timed moves and control loop           *)
(* (robot_service.py).                                                     *)
(*                                                                         *)
(* Time is the integer value returned by time.time().  A route of the web  *)
(* controller reads the clock and runs its body under _active_user_lock;   *)
(* the two are one step here (the clock does not advance while a handler   *)
(* waits for the arbiter lock).                                            *)
(***************************************************************************)
EXTENDS Integers, Sequences, FiniteSets, TLC

VARIABLES
    now,              \* time.time()
    cookies,          \* per browser: the two cookies it sends with a request
    active_user,      \* controller.py _active_user
    waiting_users,    \* controller.py _waiting_users
    resp,             \* the response of the last request that was served
    movement_enabled, \* controller.py _movement_enabled
    robot,            \* RobotService.robot: whether created, robot.is_connected
    running,          \* RobotService.running
    last_command_time,\* RobotService.last_command_time
    current_action,   \* RobotService.current_action
    lock,             \* holder of RobotService._lock
    call,             \* per caller thread: the service call it is executing
    task,             \* per timed move: its stop_after_duration thread
    loop,             \* per control thread: its position in _control_loop
    servo             \* arm servo configuration: config ratio, memo, pushes

arbVars == <<cookies, active_user, waiting_users, resp>>
svcVars == <<movement_enabled, robot, running, last_command_time,
             current_action, lock, call, task, loop, servo>>
vars == <<now, arbVars, svcVars>>

None == "None"

\* ---------------------------------------------------------------- bounds
Browsers == {"b1", "b2"}
Names == {"alice", "bob"}
ArbTick == 50          \* seconds between two clock readings of the arbiter runs
MaxArbTicks == 13      \* the arbiter runs stop the clock after this many readings

Callers == {"h1", "h2"}     \* threads that call into the service
Tasks == {"t1", "t2"}       \* stop_after_duration threads that can exist
Loops == {"l1", "l2"}       \* control threads that can exist
MaxTime == 3                \* the service runs stop the clock at StartTime + MaxTime
MaxDuration == 2            \* longest timed move requested
command_timeout_s == 2      \* RobotServiceConfig.command_timeout_s of the runs
MaxFailures == 2            \* consecutive failed cycles that are counted
MaxSpeedChanges == 2        \* changes of config.arm_servo_speed in a run

\* ------------------------------------------------------ program constants
SESSION_TIMEOUT_SECONDS == 100
VIP_SESSION_TIMEOUT_SECONDS == 600
linear_speed == 2           \* RobotServiceConfig.linear_speed, in 0.1 m/s
angular_speed == 30         \* RobotServiceConfig.angular_speed, in deg/s
arm_servo_speed == 2        \* RobotServiceConfig.arm_servo_speed, in tenths

LEKIWI_ARM_JOINTS ==
    {"arm_shoulder_pan.pos", "arm_shoulder_lift.pos", "arm_elbow_flex.pos",
     "arm_wrist_flex.pos", "arm_wrist_roll.pos", "arm_gripper.pos"}
BaseAxes == {"x.vel", "y.vel", "theta.vel"}
Axes == BaseAxes \cup LEKIWI_ARM_JOINTS
Commands == {"forward", "backward", "left", "right",
             "rotate_left", "rotate_right", "stop"}

\* ---------------------------------------------------------------- helpers
\* str(uuid.uuid4()): a value no other browser holds
uuid4(b) == "sid_" \o b

\* a removal that was forgotten
RemoveNothing(s, x) == s

\* list.remove(x) guarded by "x in list": drops the first occurrence
RECURSIVE Remove(_, _)
Remove(s, x) ==
    IF s = <<>> THEN <<>>
    ELSE IF Head(s) = x THEN Tail(s)
    ELSE <<Head(s)>> \o Remove(Tail(s), x)

\* a membership test that never finds the name
InListNever(s, x) == FALSE

\* "x in list"
InList(s, x) == \E i \in 1..Len(s) : s[i] = x

\* [u for u in _waiting_users if u != current_owner]
waiting_view(owner) == SelectSeq(waiting_users, LAMBDA u : u # owner)

has_active == active_user.id # None /\ active_user.start_time > 0

\* one timeout for every session
timeout_normal == SESSION_TIMEOUT_SECONDS

\* "VIP_SESSION_TIMEOUT_SECONDS if active_is_vip else SESSION_TIMEOUT_SECONDS"
timeout_seconds ==
    IF active_user.is_vip THEN VIP_SESSION_TIMEOUT_SECONDS
    ELSE SESSION_TIMEOUT_SECONDS

\* a clock reading that never moves away from the start of the session
elapsed_zero(t) == 0

elapsed(t) == IF has_active THEN t - active_user.start_time ELSE 0

\* a session that is never counted as active
is_active_never(t) == FALSE

\* the session still counted as active at elapsed = timeout
is_active_inclusive(t) == has_active /\ elapsed(t) <= timeout_seconds

is_active(t) == has_active /\ elapsed(t) < timeout_seconds

\* a gate that also holds back every caller but the head of the queue
must_wait_unless_head(b) ==
    \/ is_active(now) /\ cookies[b].user_id # active_user.id
    \/ waiting_users # <<>> /\ cookies[b].username # Head(waiting_users)

\* every caller has to wait while a session is active, the owner too
must_wait_always(b) == is_active(now)

\* ownership decided by the user name instead of the session id
must_wait_by_name(b) ==
    is_active(now) /\ cookies[b].username # active_user.username

\* "if is_active and user_id != active_id": the caller has to wait
must_wait(b) == is_active(now) /\ cookies[b].user_id # active_user.id

NoUser == [id |-> None, start_time |-> 0, username |-> None, is_vip |-> FALSE]

\* What the arbiter held for the caller when its request arrived at time t:
\* no session, an expired one, the caller's own active session, or an active
\* session (normal or VIP) of another session id.
SessionFor(b, t) ==
    IF active_user.id = None \/ active_user.start_time <= 0 THEN "none"
    ELSE IF t - active_user.start_time >=
            (IF active_user.is_vip THEN VIP_SESSION_TIMEOUT_SECONDS
             ELSE SESSION_TIMEOUT_SECONDS)
    THEN (IF cookies[b].user_id = active_user.id THEN "expired_own" ELSE "expired")
    ELSE IF cookies[b].user_id = active_user.id THEN "own"
    ELSE IF active_user.is_vip THEN "other_vip"
    ELSE "other"

\* the JSON body of a route that renders a page or redirects: nothing
NoBody ==
    [is_active_user |-> FALSE, remaining_seconds |-> 0, current_owner |-> None,
     session_timeout |-> 0, is_vip |-> FALSE, waiting_users |-> <<>>]

\* the response to browser b, with the session it met
Resp(route, b, status) ==
    [route |-> route, caller |-> b, status |-> status,
     met |-> IF b = None THEN "none" ELSE SessionFor(b, now),
     body |-> NoBody]


\* ------------------------------------------------------- robot service state
\* RobotService._init_action_dict for the single-arm robot
_init_action_dict == [a \in Axes |-> 0]

IdleCall == [pc |-> "idle", op |-> "none", arg |-> <<>>, duration |-> 0,
             result |-> "none", by |-> None, owner |-> FALSE]
IdleTask == [pc |-> "idle", duration |-> 0, end_time |-> 0, stopped |-> FALSE]
IdleLoop == [pc |-> "idle", loop_start_time |-> 0,
             action_to_send |-> _init_action_dict,
             failures |-> 0]   \* cycles in a row that ended in the except branch

\* RobotService.is_connected
is_connected == robot.created /\ robot.is_connected

\* an update that writes the forward axis only
SetBaseXOnly(a, x, y, theta) == [a EXCEPT !["x.vel"] = x]

\* current_action.update({"x.vel": x, "y.vel": y, "theta.vel": theta})
SetBase(a, x, y, theta) ==
    [a EXCEPT !["x.vel"] = x, !["y.vel"] = y, !["theta.vel"] = theta]

\* the if/elif chain without the zeroing update before it
PredefinedNoZero(a, command) ==
    CASE command = "forward"      -> [a EXCEPT !["x.vel"] = linear_speed]
      [] command = "backward"     -> [a EXCEPT !["x.vel"] = -linear_speed]
      [] command = "left"         -> [a EXCEPT !["y.vel"] = linear_speed]
      [] command = "right"        -> [a EXCEPT !["y.vel"] = -linear_speed]
      [] command = "rotate_left"  -> [a EXCEPT !["theta.vel"] = angular_speed]
      [] command = "rotate_right" -> [a EXCEPT !["theta.vel"] = -angular_speed]
      [] OTHER                    -> SetBase(a, 0, 0, 0)

\* the if/elif chain of execute_predefined_command, after the base was zeroed
PredefinedAction(a, command) ==
    LET z == SetBase(a, 0, 0, 0)
    IN  CASE command = "forward"      -> [z EXCEPT !["x.vel"] = linear_speed]
          [] command = "backward"     -> [z EXCEPT !["x.vel"] = -linear_speed]
          [] command = "left"         -> [z EXCEPT !["y.vel"] = linear_speed]
          [] command = "right"        -> [z EXCEPT !["y.vel"] = -linear_speed]
          [] command = "rotate_left"  -> [z EXCEPT !["theta.vel"] = angular_speed]
          [] command = "rotate_right" -> [z EXCEPT !["theta.vel"] = -angular_speed]
          [] OTHER                    -> z

\* current_action.update(arm_positions): every key of the mapping is stored
SetJointsUpdate(a, arm_positions) == arm_positions @@ a

\* "for joint, position in arm_positions.items(): if joint in current_action"
SetJoints(a, arm_positions) ==
    [k \in DOMAIN a |->
        IF k \in DOMAIN arm_positions THEN arm_positions[k] ELSE a[k]]

BaseOf(a) == <<a["x.vel"], a["y.vel"], a["theta.vel"]>>

\* RobotService.get_status: the snapshot a caller gets
get_status ==
    [success |-> TRUE, connected |-> is_connected, running |-> running,
     current_action |-> current_action,
     last_command_time |-> last_command_time]

\* the arm motors of robot.bus.motors (prefix "arm_"), in the order of the bus
arm_motors ==
    <<"arm_shoulder_pan", "arm_shoulder_lift", "arm_elbow_flex",
      "arm_wrist_flex", "arm_wrist_roll", "arm_gripper">>

\* no "_arm_speed_configured" attribute yet (the empty set; {v} once it holds
\* v), nothing written to the servos; ratio_changed records that no
\* joint-position write was made since the service was built or the ratio was
\* last assigned
InitServo ==
    [arm_servo_speed |-> arm_servo_speed, _arm_speed_configured |-> {},
     pushes |-> 0, attempted |-> {}, failed |-> {}, changes |-> 0,
     ratio_changed |-> TRUE]

\* ------------------------------------------------------------------ Init
InitArb ==
    /\ cookies = [b \in Browsers |-> [username |-> None, user_id |-> None]]
    /\ active_user = NoUser
    /\ waiting_users = <<>>
    /\ resp = Resp("none", None, 0)

\* RobotService.__init__
InitSvc ==
    /\ movement_enabled = FALSE
    /\ robot = [created |-> FALSE, is_connected |-> FALSE]
    /\ running = FALSE
    /\ last_command_time = 0
    /\ current_action = _init_action_dict
    /\ lock = None
    /\ call = [c \in Callers |-> IdleCall]
    /\ task = [t \in Tasks |-> IdleTask]
    /\ loop = [l \in Loops |-> IdleLoop]
    /\ servo = InitServo

Init ==
    /\ now = ArbTick
    /\ InitArb
    /\ InitSvc

\* run_server after "if service.connect():" succeeded: the robot is connected,
\* the joints were read as 0 and the first control thread was started
InitServing ==
    /\ now = ArbTick
    /\ InitArb
    /\ movement_enabled = FALSE
    /\ robot = [created |-> TRUE, is_connected |-> TRUE]
    /\ running = TRUE
    /\ last_command_time = 0
    /\ current_action = _init_action_dict
    /\ lock = None
    /\ call = [c \in Callers |-> IdleCall]
    /\ task = [t \in Tasks |-> IdleTask]
    /\ loop = [l \in Loops |-> IF l = "l1" THEN [IdleLoop EXCEPT !.pc = "test"]
                                ELSE IdleLoop]
    /\ servo = InitServo

\* ------------------------------------------------------- session arbiter
\* POST /login: stores the user name cookie
login(b, name) ==
    /\ cookies' = [cookies EXCEPT ![b].username = name]
    /\ resp' = Resp("login", b, 302)
    /\ UNCHANGED <<now, active_user, waiting_users>>

\* GET / (requestAccess)
index(b) ==
    LET username == cookies[b].username
        user_id == cookies[b].user_id
    IN  IF username = None
        THEN /\ resp' = Resp("index", b, 302)
             /\ UNCHANGED <<now, cookies, active_user, waiting_users>>
        ELSE IF must_wait(b)
        THEN /\ waiting_users' =
                    IF ~InList(waiting_users, username)
                    THEN Append(waiting_users, username)
                    ELSE waiting_users
             /\ resp' = Resp("index", b, 429)
             /\ UNCHANGED <<now, cookies, active_user>>
        ELSE IF ~is_active(now)
        THEN LET uid == IF user_id = None THEN uuid4(b) ELSE user_id
             IN  /\ active_user' = [id |-> uid, start_time |-> now,
                                    username |-> username, is_vip |-> FALSE]
                 /\ waiting_users' =
                        IF InList(waiting_users, username)
                        THEN Remove(waiting_users, username)
                        ELSE waiting_users
                 /\ cookies' = [cookies EXCEPT ![b].user_id = uid]
                 /\ resp' = Resp("index", b, 200)
                 /\ UNCHANGED now
        ELSE /\ active_user' = [active_user EXCEPT !.username = username]
             /\ waiting_users' =
                    IF InList(waiting_users, username)
                    THEN Remove(waiting_users, username)
                    ELSE waiting_users
             /\ cookies' = [cookies EXCEPT ![b].user_id = user_id]
             /\ resp' = Resp("index", b, 200)
             /\ UNCHANGED now

\* GET /vip (requestPrivilegedAccess)
vip(b) ==
    LET username == cookies[b].username
        user_id == IF cookies[b].user_id = None THEN uuid4(b)
                   ELSE cookies[b].user_id
    IN  IF username = None
        THEN /\ resp' = Resp("vip", b, 302)
             /\ UNCHANGED <<now, cookies, active_user, waiting_users>>
        ELSE /\ active_user' = [id |-> user_id, start_time |-> now,
                                username |-> username, is_vip |-> TRUE]
             /\ waiting_users' =
                    IF InList(waiting_users, username)
                    THEN Remove(waiting_users, username)
                    ELSE waiting_users
             /\ cookies' = [cookies EXCEPT ![b].user_id = user_id]
             /\ resp' = Resp("vip", b, 200)
             /\ UNCHANGED now

\* GET /wait
wait(b) ==
    LET username == cookies[b].username
        user_id == cookies[b].user_id
    IN  IF username = None
        THEN /\ resp' = Resp("wait", b, 302)
             /\ UNCHANGED <<now, cookies, active_user, waiting_users>>
        ELSE /\ waiting_users' =
                    IF /\ must_wait(b)
                       /\ ~InList(waiting_users, username)
                    THEN Append(waiting_users, username)
                    ELSE waiting_users
             /\ resp' = Resp("wait", b, 200)
             /\ UNCHANGED <<now, cookies, active_user>>

\* POST /exit_control (release)
exit_control(b) ==
    LET username == cookies[b].username
        user_id == cookies[b].user_id
    IN  IF user_id = active_user.id
        THEN /\ active_user' = NoUser
             /\ waiting_users' =
                    IF username # None /\ InList(waiting_users, username)
                    THEN Remove(waiting_users, username)
                    ELSE waiting_users
             /\ resp' = Resp("exit_control", b, 200)
             /\ UNCHANGED <<now, cookies>>
        ELSE /\ resp' = Resp("exit_control", b, 403)
             /\ UNCHANGED <<now, cookies, active_user, waiting_users>>

\* GET /session_info (inspect): the JSON it returns; times are whole seconds,
\* so int() changes nothing
session_info(b) ==
    LET user_id == cookies[b].user_id
        remaining == IF is_active(now) THEN timeout_seconds - elapsed(now) ELSE 0
        is_current_user == is_active(now) /\ user_id = active_user.id
        shown == IF is_current_user THEN remaining ELSE 0
    IN  /\ resp' = [Resp("session_info", b, 200) EXCEPT !.body =
                [is_active_user |-> is_current_user,
                 remaining_seconds |-> IF shown > 0 THEN shown ELSE 0,
                 current_owner |-> IF is_active(now) THEN active_user.username
                                   ELSE None,
                 session_timeout |-> timeout_seconds,
                 is_vip |-> IF is_active(now) THEN active_user.is_vip ELSE FALSE,
                 waiting_users |-> waiting_view(active_user.username)]]
        /\ UNCHANGED <<now, cookies, active_user, waiting_users>>

\* time.time() advances by d, up to limit; the last response is history
Tick(d, limit) ==
    /\ now + d <= limit
    /\ now' = now + d
    /\ resp' = Resp("none", None, 0)
    /\ UNCHANGED <<cookies, active_user, waiting_users, svcVars>>

\* the clock of the arbiter runs and the clock of the service runs
TickArb == Tick(ArbTick, ArbTick * MaxArbTicks)
TickSvc == Tick(1, ArbTick + MaxTime)

\* ------------------------------------------------------------ command gateway
\* inputs of the runs
VelInputs == {<<1, 0, 0>>, <<0, -1, 5>>}
ArmInputs == {("arm_gripper.pos" :> 50),
              ("arm_shoulder_pan.pos" :> 10 @@ "bogus.pos" :> 7)}
CommandInputs == {"forward", "rotate_right", "stop", "dance"}
Durations == 0..MaxDuration

\* an operation that does not test the connection
EnteredUnchecked(r, op, arg, timed, duration) ==
    [r EXCEPT !.pc = "write", !.op = op, !.arg = arg,
              !.duration = IF timed THEN duration ELSE 0, !.result = "none"]

\* The "if not self.is_connected()" test that opens execute_predefined_command,
\* execute_custom_velocity and set_arm_position, entered from call record r.
\* move_robot_for_duration (timed, "predefined") and
\* move_robot_with_custom_speed_for_duration (timed, "velocity") begin with it.
Entered(r, op, arg, timed, duration) ==
    IF ~is_connected
    THEN [r EXCEPT !.pc = "idle", !.op = op, !.arg = <<>>, !.duration = 0,
                   !.result = "NotConnected"]
    ELSE [r EXCEPT !.pc = IF op = "arm" THEN "configure" ELSE "write",
                   !.op = op, !.arg = arg,
                   !.duration = IF timed THEN duration ELSE 0,
                   !.result = "none"]

\* a thread calls one of the five operations of the service
Invoke(c, op, arg, timed, duration) ==
    /\ call[c].pc = "idle"
    /\ call' = [call EXCEPT ![c] = Entered(IdleCall, op, arg, timed, duration)]
    /\ UNCHANGED <<now, servo, movement_enabled, robot, running, last_command_time,
                   current_action, lock, task, loop>>

\* ------------------------------------------------------ dual-arm operations
\* config.is_xlerobot() of the single-arm robot (robot_type "lekiwi")
is_xlerobot == FALSE

DualArmOps == {"set_left_arm_position", "set_right_arm_position",
               "set_dual_arm_position", "mirror_arm_position"}

\* joint names without the prefix of an arm
ArmJointNames == {"shoulder_pan.pos", "shoulder_lift.pos", "elbow_flex.pos",
                  "wrist_flex.pos", "wrist_roll.pos", "gripper.pos"}

\* {f"{prefix}{k}": v for k, v in arm_positions.items()}
Prefixed(prefix, m) ==
    [k \in {prefix \o j : j \in DOMAIN m} |->
        m[CHOOSE j \in DOMAIN m : prefix \o j = k]]

\* mirror_positions: the source arm's joints found in current_action, under
\* the other arm's prefix
MirrorPositions(a, source_arm) ==
    LET src == IF source_arm = "left" THEN "left_" ELSE "right_"
        tgt == IF source_arm = "left" THEN "right_" ELSE "left_"
        found == [j \in {n \in ArmJointNames : src \o n \in DOMAIN a} |->
                    a[src \o j]]
    IN  Prefixed(tgt, found)

\* the positions a dual-arm operation hands to set_arm_position
DualArmPositions(op, arg) ==
    CASE op = "set_left_arm_position"  -> Prefixed("left_", arg)
      [] op = "set_right_arm_position" -> Prefixed("right_", arg)
      [] op = "set_dual_arm_position"  ->
            Prefixed("left_", arg) @@ Prefixed("right_", arg)
      [] OTHER -> MirrorPositions(current_action, arg)

\* a dual-arm operation without the test of the robot type
EnteredDualArmUnchecked(r, op, arg) ==
    Entered(r, "arm", DualArmPositions(op, arg), FALSE, 0)

\* "if not self.config.is_xlerobot(): return {"success": False, ...}", the
\* first statement of the four operations; otherwise set_arm_position
EnteredDualArm(r, op, arg) ==
    IF ~is_xlerobot
    THEN [r EXCEPT !.pc = "idle", !.op = op, !.arg = <<>>, !.duration = 0,
                   !.result = "NotApplicable"]
    ELSE Entered(r, "arm", DualArmPositions(op, arg), FALSE, 0)

\* a thread calls set_left_arm_position, set_right_arm_position,
\* set_dual_arm_position or mirror_arm_position
DualArmCall(c, op, arg) ==
    /\ call[c].pc = "idle"
    /\ call' = [call EXCEPT ![c] = EnteredDualArm(IdleCall, op, arg)]
    /\ UNCHANGED <<now, servo, movement_enabled, robot, running, last_command_time,
                   current_action, lock, task, loop>>

\* arguments of the dual-arm operations: joint positions, and the source arm
DualArmInputs == {("gripper.pos" :> 50),
                  ("shoulder_pan.pos" :> 10 @@ "gripper.pos" :> 50)}
SourceArms == {"left", "right"}

\* sets of arm motors whose parameter writes raise
FailInputs == {{}, {"arm_elbow_flex"}, {"arm_shoulder_pan", "arm_gripper"}}

\* values config.arm_servo_speed takes, in tenths
SpeedInputs == {arm_servo_speed, 5}

\* a loop over the motors that ends at the first write that raises
WriteUntilFailure(fails) ==
    LET bad == {i \in 1..Len(arm_motors) : arm_motors[i] \in fails}
        last == IF bad = {} THEN Len(arm_motors)
                ELSE CHOOSE i \in bad : \A j \in bad : i <= j
    IN  [attempted |-> {arm_motors[i] : i \in 1..last},
         failed |-> {arm_motors[i] : i \in bad \cap (1..last)}]

\* "for motor in arm_motors: try: ...write... except Exception: warning":
\* every motor is attempted, the ones in fails raise and are logged
WriteAll(fails) ==
    [attempted |-> {arm_motors[i] : i \in 1..Len(arm_motors)},
     failed |-> {arm_motors[i] : i \in 1..Len(arm_motors)} \cap fails]

\* _configure_arm_servo_speed: returns at once when not connected
_configure_arm_servo_speed(sv, fails) ==
    IF ~is_connected THEN sv
    ELSE [sv EXCEPT !.pushes = sv.pushes + 1,
                    !.attempted = WriteAll(fails).attempted,
                    !.failed = WriteAll(fails).failed]

\* a joint-position write that configures the servos every time
ArmAlwaysConfigures(c) ==
    /\ call[c].pc = "configure"
    /\ call' = [call EXCEPT ![c].pc = "push"]
    /\ servo' = [servo EXCEPT !.ratio_changed = FALSE]
    /\ UNCHANGED <<now, movement_enabled, robot, running, last_command_time,
                   current_action, lock, task, loop>>

\* set_arm_position before it takes the lock: "if hasattr(self,
\* '_arm_speed_configured') and self._arm_speed_configured ==
\* self.config.arm_servo_speed: pass"
ArmTestMemo(c) ==
    /\ call[c].pc = "configure"
    /\ call' = [call EXCEPT ![c].pc =
            IF servo._arm_speed_configured = {servo.arm_servo_speed}
            THEN "write" ELSE "push"]
    /\ servo' = [servo EXCEPT !.ratio_changed = FALSE]
    /\ UNCHANGED <<now, movement_enabled, robot, running, last_command_time,
                   current_action, lock, task, loop>>

\* the else branch: the servo configuration and the assignment of the memo
ArmConfigure(c, fails) ==
    /\ call[c].pc = "push"
    /\ servo' = [_configure_arm_servo_speed(servo, fails) EXCEPT
                    !._arm_speed_configured = {servo.arm_servo_speed},
                    !.ratio_changed = FALSE]
    /\ call' = [call EXCEPT ![c].pc = "write"]
    /\ UNCHANGED <<now, movement_enabled, robot, running, last_command_time,
                   current_action, lock, task, loop>>

\* config.arm_servo_speed is assigned another value
SetArmServoSpeed(v) ==
    /\ v # servo.arm_servo_speed
    /\ servo.changes < MaxSpeedChanges
    /\ servo' = [servo EXCEPT !.arm_servo_speed = v, !.changes = @ + 1,
                              !.ratio_changed = TRUE]
    /\ UNCHANGED <<now, movement_enabled, robot, running, last_command_time,
                   current_action, lock, call, task, loop>>

\* "with self._lock:" and the update of current_action
GwWrite(c) ==
    /\ call[c].pc = "write"
    /\ lock = None
    /\ LET r == call[c] IN
       IF r.op = "predefined" /\ r.arg[1] \notin Commands
       THEN \* the else branch returns from inside the with block
            /\ current_action' = SetBase(current_action, 0, 0, 0)
            /\ call' = [call EXCEPT ![c] =
                    [r EXCEPT !.pc = "idle", !.arg = <<>>, !.duration = 0,
                              !.result = "UnknownCommand"]]
            /\ UNCHANGED lock
       ELSE /\ current_action' =
                    CASE r.op = "predefined" ->
                            PredefinedAction(current_action, r.arg[1])
                      [] r.op = "velocity" ->
                            SetBase(current_action, r.arg[1], r.arg[2], r.arg[3])
                      [] OTHER -> SetJoints(current_action, r.arg)
            /\ lock' = c
            /\ call' = [call EXCEPT ![c].pc = "stamp"]
    /\ UNCHANGED <<now, servo, movement_enabled, robot, running, last_command_time,
                   task, loop>>

\* "self.last_command_time = time.time()", the last statement under the lock
GwStamp(c) ==
    /\ call[c].pc = "stamp"
    /\ lock = c
    /\ last_command_time' = now
    /\ lock' = None
    /\ call' = [call EXCEPT ![c].pc = "return"]
    /\ UNCHANGED <<now, servo, movement_enabled, robot, running, current_action,
                   task, loop>>

\* whether the timed variant starts a stop_after_duration thread
SpawnsTask(r) ==
    /\ r.duration > 0
    /\ r.op = "predefined" => r.arg[1] # "stop"

\* the thread object of the next timed move: a slot no live thread uses
FreeTasks(T) ==
    LET free == {t \in T : task[t].pc \in {"idle", "done"}}
    IN  IF "t1" \in free THEN {"t1"} ELSE free

\* the success return, which reads current_action once more for the
\* "current_action": self.current_action.copy() of its result, after the with
\* block; the timed variants then start their thread
GwReturn(c, T) ==
    /\ call[c].pc = "return"
    /\ IF SpawnsTask(call[c])
       THEN \E t \in FreeTasks(T) :
                task' = [task EXCEPT ![t] =
                    [pc |-> "start", duration |-> call[c].duration,
                     end_time |-> 0, stopped |-> FALSE]]
       ELSE UNCHANGED task
    /\ call' = [call EXCEPT ![c] =
            [@ EXCEPT !.pc = "idle", !.arg = <<>>, !.duration = 0,
                      !.result = "ok"]]
    /\ UNCHANGED <<now, servo, movement_enabled, robot, running, last_command_time,
                   current_action, lock, loop>>

\* ------------------------------------------------- controller.py: movement
\* GET/POST /startmove
start_move ==
    /\ movement_enabled' = TRUE
    /\ UNCHANGED <<now, servo, robot, running, last_command_time, current_action,
                   lock, call, task, loop>>

\* GET/POST /stopmove: clears the switch, then calls service.stop_robot()
stop_move(c) ==
    /\ call[c].pc = "idle"
    /\ movement_enabled' = FALSE
    /\ call' = [call EXCEPT ![c] =
            [IdleCall EXCEPT !.pc = "dispatch", !.op = "predefined",
                             !.arg = <<"stop">>]]
    /\ UNCHANGED <<now, servo, robot, running, last_command_time, current_action,
                   lock, task, loop>>

\* request bodies of POST /control: a command, joint positions or a velocity,
\* with an optional duration
ControlInputs ==
    {[op |-> "predefined", arg |-> <<cmd>>, duration |-> d] :
        cmd \in CommandInputs, d \in Durations}
    \cup {[op |-> "arm", arg |-> m, duration |-> 0] : m \in ArmInputs}
    \cup {[op |-> "velocity", arg |-> v, duration |-> d] :
        v \in VelInputs, d \in Durations}

\* POST /control from browser b: the "if not _movement_enabled" test and the
\* choice of the service method from the request body
control_robot(c, b, data) ==
    /\ call[c].pc = "idle"
    /\ call' = [call EXCEPT ![c] =
            IF ~movement_enabled
            THEN [IdleCall EXCEPT !.op = data.op, !.result = "monitor_only",
                                  !.by = b]
            ELSE [IdleCall EXCEPT !.pc = "dispatch", !.op = data.op,
                                  !.arg = data.arg, !.duration = data.duration,
                                  !.by = b,
                                  !.owner = (SessionFor(b, now) = "own")]]
    /\ UNCHANGED <<now, servo, movement_enabled, robot, running, last_command_time,
                   current_action, lock, task, loop>>

\* the handler calls the service method it chose
Dispatch(c) ==
    /\ call[c].pc = "dispatch"
    /\ call' = [call EXCEPT ![c] =
            Entered(call[c], call[c].op, call[c].arg,
                    call[c].duration > 0, call[c].duration)]
    /\ UNCHANGED <<now, servo, movement_enabled, robot, running, last_command_time,
                   current_action, lock, task, loop>>

\* ------------------------------------------------------ stop_after_duration
\* "end_time = time.time() + duration"
TaskStart(t) ==
    /\ task[t].pc = "start"
    /\ task' = [task EXCEPT ![t].end_time = now + task[t].duration,
                            ![t].pc = "check"]
    /\ UNCHANGED <<now, servo, movement_enabled, robot, running, last_command_time,
                   current_action, lock, call, loop>>

\* "while time.time() < end_time"
TaskCheck(t) ==
    /\ task[t].pc = "check"
    /\ task' = [task EXCEPT ![t].pc =
                    IF now < task[t].end_time THEN "refresh" ELSE "stop"]
    /\ UNCHANGED <<now, servo, movement_enabled, robot, running, last_command_time,
                   current_action, lock, call, loop>>

\* a refresh that stamps the time the thread was started at
TaskRefreshStale(t) ==
    /\ task[t].pc = "refresh"
    /\ lock = None
    /\ last_command_time' = task[t].end_time - task[t].duration
    /\ task' = [task EXCEPT ![t].pc = "check"]
    /\ UNCHANGED <<now, servo, movement_enabled, robot, running, current_action,
                   lock, call, loop>>

\* "with self._lock: self.last_command_time = time.time()", then
\* "time.sleep(0.1)"
TaskRefresh(t) ==
    /\ task[t].pc = "refresh"
    /\ lock = None
    /\ last_command_time' = now
    /\ task' = [task EXCEPT ![t].pc = "check"]
    /\ UNCHANGED <<now, servo, movement_enabled, robot, running, current_action,
                   lock, call, loop>>

\* the final execute_predefined_command("stop"): its is_connected test
TaskStop(t) ==
    /\ task[t].pc = "stop"
    /\ task' = [task EXCEPT ![t].pc =
                    IF is_connected THEN "stop_write" ELSE "done"]
    /\ UNCHANGED <<now, servo, movement_enabled, robot, running, last_command_time,
                   current_action, lock, call, loop>>

\* a final stop that takes the lock and leaves the base velocities alone
TaskStopKeepsBase(t) ==
    /\ task[t].pc = "stop_write"
    /\ lock = None
    /\ lock' = t
    /\ task' = [task EXCEPT ![t].pc = "stop_stamp"]
    /\ UNCHANGED <<now, servo, movement_enabled, robot, running, last_command_time,
                   current_action, call, loop>>

\* the final stop's "with self._lock:" and its zeroing update
TaskStopWrite(t) ==
    /\ task[t].pc = "stop_write"
    /\ lock = None
    /\ current_action' = PredefinedAction(current_action, "stop")
    /\ lock' = t
    /\ task' = [task EXCEPT ![t].pc = "stop_stamp"]
    /\ UNCHANGED <<now, servo, movement_enabled, robot, running, last_command_time,
                   call, loop>>

TaskStopStamp(t) ==
    /\ task[t].pc = "stop_stamp"
    /\ lock = t
    /\ last_command_time' = now
    /\ lock' = None
    /\ task' = [task EXCEPT ![t].pc = "done", ![t].stopped = TRUE]
    /\ UNCHANGED <<now, servo, movement_enabled, robot, running, current_action,
                   call, loop>>

\* ------------------------------------------------------------- _control_loop
\* a while test that looks at the connection only
LoopTestIgnoresFlag(l) ==
    /\ loop[l].pc = "test"
    /\ loop' = [loop EXCEPT ![l] =
            IF is_connected
            THEN [@ EXCEPT !.pc = "watchdog", !.loop_start_time = now]
            ELSE [@ EXCEPT !.pc = "stopped"]]
    /\ UNCHANGED <<now, servo, movement_enabled, robot, running, last_command_time,
                   current_action, lock, call, task>>

\* "while self.running and self.is_connected():" and "loop_start_time = time.time()"
LoopTest(l) ==
    /\ loop[l].pc = "test"
    /\ loop' = [loop EXCEPT ![l] =
            IF running /\ is_connected
            THEN [@ EXCEPT !.pc = "watchdog", !.loop_start_time = now]
            ELSE [@ EXCEPT !.pc = "stopped"]]
    /\ UNCHANGED <<now, servo, movement_enabled, robot, running, last_command_time,
                   current_action, lock, call, task>>

\* "if (time.time() - self.last_command_time) > self.config.command_timeout_s"
stale(t) == (t - last_command_time) > command_timeout_s

LoopWatchdog(l) ==
    /\ loop[l].pc = "watchdog"
    /\ loop' = [loop EXCEPT ![l].pc = IF stale(now) THEN "zero" ELSE "snapshot"]
    /\ UNCHANGED <<now, servo, movement_enabled, robot, running, last_command_time,
                   current_action, lock, call, task>>

\* a watchdog that stops the forward axis only
ZeroForwardOnly(a) == [a EXCEPT !["x.vel"] = 0]

\* a watchdog that resets every axis, the joints too
ZeroAll(a) == [k \in DOMAIN a |-> 0]

\* the update the watchdog applies under the lock
ZeroBase(a) == SetBase(a, 0, 0, 0)

LoopZero(l) ==
    /\ loop[l].pc = "zero"
    /\ lock = None
    /\ current_action' = ZeroBase(current_action)
    /\ loop' = [loop EXCEPT ![l].pc = "snapshot"]
    /\ UNCHANGED <<now, servo, movement_enabled, robot, running, last_command_time,
                   lock, call, task>>

\* a copy that leaves the with block only after the dispatch
LoopSnapshotKeepsLock(l) ==
    /\ loop[l].pc = "snapshot"
    /\ lock = None
    /\ lock' = l
    /\ loop' = [loop EXCEPT ![l].action_to_send = current_action,
                            ![l].pc = "send"]
    /\ UNCHANGED <<now, servo, movement_enabled, robot, running, last_command_time,
                   current_action, call, task>>

\* "with self._lock: action_to_send = self.current_action.copy()"
LoopSnapshot(l) ==
    /\ loop[l].pc = "snapshot"
    /\ lock = None
    /\ loop' = [loop EXCEPT ![l].action_to_send = current_action,
                            ![l].pc = "send"]
    /\ UNCHANGED <<now, servo, movement_enabled, robot, running, last_command_time,
                   current_action, lock, call, task>>

\* "self.robot.send_action(action_to_send)", then the sleep of either branch
\* (the locals of the finished cycle are dropped)
LoopSend(l) ==
    /\ loop[l].pc = "send"
    /\ loop' = [loop EXCEPT ![l] = [IdleLoop EXCEPT !.pc = "test"]]
    /\ UNCHANGED <<now, servo, movement_enabled, robot, running, last_command_time,
                   current_action, lock, call, task>>

\* a control thread that ends when a cycle raises
LoopDies(r) == [r EXCEPT !.pc = "stopped"]

\* "except Exception as e: logger.error(...); time.sleep(0.1)": the thread goes
\* back to the while test
AfterFailure(r) ==
    [IdleLoop EXCEPT !.pc = "test",
                     !.failures = IF r.failures < MaxFailures
                                  THEN r.failures + 1 ELSE MaxFailures]

\* the copy under the lock or robot.send_action raises
LoopCycleFails(l) ==
    /\ loop[l].pc \in {"snapshot", "send"}
    /\ loop[l].pc = "snapshot" => lock = None
    /\ loop' = [loop EXCEPT ![l] = AfterFailure(loop[l])]
    /\ UNCHANGED <<now, servo, movement_enabled, robot, running, last_command_time,
                   current_action, lock, call, task>>

\* -------------------------------------------------------- connect, disconnect
\* joint positions robot.get_observation() can report
Observations == {[j \in LEKIWI_ARM_JOINTS |-> 0],
                 [j \in LEKIWI_ARM_JOINTS |->
                    IF j = "arm_gripper.pos" THEN 3 ELSE 0]}

\* connect(): "if self.robot and self.robot.is_connected: return True"
ConnectEnter(c) ==
    /\ call[c].pc = "idle"
    /\ call' = [call EXCEPT ![c] =
            IF is_connected
            THEN [IdleCall EXCEPT !.op = "connect", !.result = "ok"]
            ELSE [IdleCall EXCEPT !.op = "connect", !.pc = "hw_connect"]]
    /\ UNCHANGED <<now, servo, movement_enabled, robot, running, last_command_time,
                   current_action, lock, task, loop>>

\* _create_robot() and robot.connect(): either can fail, and connect() then
\* returns False
ConnectHardware(c, ok) ==
    /\ call[c].pc = "hw_connect"
    /\ IF ok
       THEN /\ robot' = [created |-> TRUE, is_connected |-> TRUE]
            /\ call' = [call EXCEPT ![c].pc = "seed"]
       ELSE /\ UNCHANGED robot
            /\ call' = [call EXCEPT ![c] =
                    [IdleCall EXCEPT !.op = "connect", !.result = "failed"]]
    /\ UNCHANGED <<now, servo, movement_enabled, running, last_command_time,
                   current_action, lock, task, loop>>

\* "current_state = self.robot.get_observation()" and the copy of the joint
\* positions under the lock
ConnectSeed(c, current_state) ==
    /\ call[c].pc = "seed"
    /\ lock = None
    /\ current_action' =
            [k \in DOMAIN current_action |->
                IF k \in LEKIWI_ARM_JOINTS /\ k \in DOMAIN current_state
                THEN current_state[k] ELSE current_action[k]]
    /\ call' = [call EXCEPT ![c].pc = "test_running"]
    /\ UNCHANGED <<now, servo, movement_enabled, robot, running, last_command_time,
                   lock, task, loop>>

\* "if not self.running:"
ConnectTestRunning(c) ==
    /\ call[c].pc = "test_running"
    /\ call' = [call EXCEPT ![c] =
            IF ~running THEN [@ EXCEPT !.pc = "start_loop"]
            ELSE [IdleCall EXCEPT !.op = "connect", !.result = "ok"]]
    /\ UNCHANGED <<now, servo, movement_enabled, robot, running, last_command_time,
                   current_action, lock, task, loop>>

\* the thread object of the next control thread: a slot no live thread uses
FreeLoops(L) ==
    LET free == {l \in L : loop[l].pc \in {"idle", "stopped"}}
    IN  IF "l1" \in free THEN {"l1"} ELSE free

\* "self.running = True" and the start of a new control thread
ConnectStartLoop(c, L) ==
    /\ call[c].pc = "start_loop"
    /\ running' = TRUE
    /\ \E l \in FreeLoops(L) :
            loop' = [loop EXCEPT ![l] = [IdleLoop EXCEPT !.pc = "test"]]
    /\ call' = [call EXCEPT ![c] =
            [IdleCall EXCEPT !.op = "connect", !.result = "ok"]]
    /\ UNCHANGED <<now, servo, movement_enabled, robot, last_command_time,
                   current_action, lock, task>>

\* disconnect(): "self.running = False"
DisconnectEnter(c) ==
    /\ call[c].pc = "idle"
    /\ running' = FALSE
    /\ call' = [call EXCEPT ![c] =
            [IdleCall EXCEPT !.op = "disconnect", !.pc = "hw_disconnect"]]
    /\ UNCHANGED <<now, servo, movement_enabled, robot, last_command_time,
                   current_action, lock, task, loop>>

\* "if self.robot and self.robot.is_connected: self.robot.disconnect()"
DisconnectHardware(c) ==
    /\ call[c].pc = "hw_disconnect"
    /\ robot' = [robot EXCEPT !.is_connected = FALSE]
    /\ call' = [call EXCEPT ![c] =
            [IdleCall EXCEPT !.op = "disconnect", !.result = "ok"]]
    /\ UNCHANGED <<now, servo, movement_enabled, running, last_command_time,
                   current_action, lock, task, loop>>

\* the hardware connection is lost (robot.is_connected turns False)
ConnectionLost ==
    /\ robot.is_connected
    /\ robot' = [robot EXCEPT !.is_connected = FALSE]
    /\ UNCHANGED <<now, servo, movement_enabled, running, last_command_time,
                   current_action, lock, call, task, loop>>

\* ------------------------------------------------------------ specifications
\* Steps of the service leave the arbiter alone, and the other way round.
GatewaySteps(C, T) ==
    \/ \E c \in C : ArmTestMemo(c) /\ UNCHANGED arbVars
    \/ \E c \in C : ArmConfigure(c, {}) /\ UNCHANGED arbVars
    \/ \E c \in C : GwWrite(c) /\ UNCHANGED arbVars
    \/ \E c \in C : GwStamp(c) /\ UNCHANGED arbVars
    \/ \E c \in C : GwReturn(c, T) /\ UNCHANGED arbVars

\* servo parameter writes that raise
ServoSteps(C, fails) ==
    \/ \E c \in C, f \in fails : ArmConfigure(c, f) /\ UNCHANGED arbVars

\* changes of the configured ratio
SpeedSteps(speeds) ==
    \/ \E v \in speeds : SetArmServoSpeed(v) /\ UNCHANGED arbVars

DualArmCalls(C) ==
    \/ \E c \in C, op \in DualArmOps \ {"mirror_arm_position"}, m \in DualArmInputs :
            DualArmCall(c, op, m) /\ UNCHANGED arbVars
    \/ \E c \in C, s \in SourceArms :
            DualArmCall(c, "mirror_arm_position", s) /\ UNCHANGED arbVars

TaskSteps(T) ==
    \/ \E t \in T : TaskStart(t) /\ UNCHANGED arbVars
    \/ \E t \in T : TaskCheck(t) /\ UNCHANGED arbVars
    \/ \E t \in T : TaskRefresh(t) /\ UNCHANGED arbVars
    \/ \E t \in T : TaskStop(t) /\ UNCHANGED arbVars
    \/ \E t \in T : TaskStopWrite(t) /\ UNCHANGED arbVars
    \/ \E t \in T : TaskStopStamp(t) /\ UNCHANGED arbVars

LoopSteps(L) ==
    \/ \E l \in L : LoopTest(l) /\ UNCHANGED arbVars
    \/ \E l \in L : LoopWatchdog(l) /\ UNCHANGED arbVars
    \/ \E l \in L : LoopZero(l) /\ UNCHANGED arbVars
    \/ \E l \in L : LoopSnapshot(l) /\ UNCHANGED arbVars
    \/ \E l \in L : LoopSend(l) /\ UNCHANGED arbVars

LoopFailSteps(L) ==
    \/ \E l \in L : LoopCycleFails(l) /\ UNCHANGED arbVars

ConnectSteps(C, obs, L) ==
    \/ \E c \in C : ConnectEnter(c) /\ UNCHANGED arbVars
    \/ \E c \in C, ok \in BOOLEAN : ConnectHardware(c, ok) /\ UNCHANGED arbVars
    \/ \E c \in C, o \in obs : ConnectSeed(c, o) /\ UNCHANGED arbVars
    \/ \E c \in C : ConnectTestRunning(c) /\ UNCHANGED arbVars
    \/ \E c \in C : ConnectStartLoop(c, L) /\ UNCHANGED arbVars

DisconnectSteps(C) ==
    \/ \E c \in C : DisconnectEnter(c) /\ UNCHANGED arbVars
    \/ \E c \in C : DisconnectHardware(c) /\ UNCHANGED arbVars
    \/ ConnectionLost /\ UNCHANGED arbVars

\* the calls a client of the service makes directly
ServiceCalls(C, cmds, vels, arms, durs) ==
    \/ \E c \in C, cmd \in cmds, d \in durs :
            Invoke(c, "predefined", <<cmd>>, d > 0, d) /\ UNCHANGED arbVars
    \/ \E c \in C, v \in vels, d \in durs :
            Invoke(c, "velocity", v, d > 0, d) /\ UNCHANGED arbVars
    \/ \E c \in C, m \in arms :
            Invoke(c, "arm", m, FALSE, 0) /\ UNCHANGED arbVars

\* requests to the web controller's movement routes
MovementSteps(C, B, inputs) ==
    \/ start_move /\ UNCHANGED arbVars
    \/ \E c \in C : stop_move(c) /\ UNCHANGED arbVars
    \/ \E c \in C, b \in B, d \in inputs :
            control_robot(c, b, d) /\ UNCHANGED arbVars
    \/ \E c \in C : Dispatch(c) /\ UNCHANGED arbVars

\* requests to the web controller's session routes
ArbiterSteps ==
    \/ \E b \in Browsers, n \in Names : login(b, n) /\ UNCHANGED svcVars
    \/ \E b \in Browsers : index(b) /\ UNCHANGED svcVars
    \/ \E b \in Browsers : vip(b) /\ UNCHANGED svcVars
    \/ \E b \in Browsers : wait(b) /\ UNCHANGED svcVars
    \/ \E b \in Browsers : exit_control(b) /\ UNCHANGED svcVars
    \/ \E b \in Browsers : session_info(b) /\ UNCHANGED svcVars

\* The whole program: browsers, the web controller, clients of the service,
\* the timed moves and the control threads.
Next ==
    \/ ArbiterSteps
    \/ TickArb
    \/ TickSvc
    \/ MovementSteps(Callers, Browsers, ControlInputs)
    \/ ServiceCalls(Callers, CommandInputs, VelInputs, ArmInputs, Durations)
    \/ GatewaySteps(Callers, Tasks)
    \/ ServoSteps(Callers, FailInputs)
    \/ SpeedSteps(SpeedInputs)
    \/ DualArmCalls(Callers)
    \/ TaskSteps(Tasks)
    \/ LoopSteps(Loops)
    \/ LoopFailSteps(Loops)
    \/ ConnectSteps(Callers, Observations, Loops)
    \/ DisconnectSteps(Callers)

Spec == Init /\ [][Next]_vars

\* The scoped runs below take the same steps with fewer threads and inputs.
\* the session arbiter alone
NextArb == ArbiterSteps \/ TickArb

SpecArb == Init /\ [][NextArb]_vars

ZeroObservation == {[j \in LEKIWI_ARM_JOINTS |-> 0]}

\* connect() and disconnect() from two threads, connection loss, control threads
NextLife ==
    \/ ConnectSteps(Callers, ZeroObservation, Loops)
    \/ DisconnectSteps(Callers)
    \/ LoopSteps(Loops)

SpecLife == Init /\ [][NextLife]_vars

\* a client of the gateway, a timed move, connect and disconnect; the control
\* thread that connect() starts is not scheduled in these runs
NextGateway ==
    \/ ServiceCalls({"h1"}, CommandInputs, {<<0, -1, 5>>},
                    {("arm_shoulder_pan.pos" :> 10 @@ "bogus.pos" :> 7)},
                    {0, MaxDuration})
    \/ GatewaySteps({"h1"}, {"t1"})
    \/ TaskSteps({"t1"})
    \/ ConnectSteps({"h2"}, ZeroObservation, {"l1"})
    \/ DisconnectSteps({"h2"})
    \/ TickSvc

SpecGateway == Init /\ [][NextGateway]_vars

\* the serving robot: a client, a timed move and the control thread, until the
\* service is disconnected or the connection is lost
NextWatchdog ==
    \/ ServiceCalls({"h1"}, {"forward"}, {<<0, -1, 5>>},
                    {("arm_gripper.pos" :> 50 @@ "bogus.pos" :> 7)}, {0, 1})
    \/ GatewaySteps({"h1"}, {"t1"})
    \/ TaskSteps({"t1"})
    \/ LoopSteps({"l1"})
    \/ DisconnectSteps({"h2"})
    \/ TickSvc

SpecWatchdog == InitServing /\ [][NextWatchdog]_vars

\* the web controller in front of the serving robot: sessions and /control
WebInputs ==
    {[op |-> "predefined", arg |-> <<"forward">>, duration |-> 0],
     [op |-> "velocity", arg |-> <<0, -1, 5>>, duration |-> 0],
     [op |-> "arm", arg |-> ("arm_gripper.pos" :> 50), duration |-> 0]}

NextWeb ==
    \/ login("b1", "alice") /\ UNCHANGED svcVars
    \/ login("b2", "bob") /\ UNCHANGED svcVars
    \/ \E b \in Browsers : index(b) /\ UNCHANGED svcVars
    \/ \E b \in Browsers : exit_control(b) /\ UNCHANGED svcVars
    \/ MovementSteps({"h1"}, Browsers, WebInputs)
    \/ GatewaySteps({"h1"}, {})

SpecWeb == InitServing /\ [][NextWeb]_vars

\* the serving robot and one client that issues every predefined command, the
\* velocities and the joint positions, one call after the other
NextCommands ==
    \/ ServiceCalls({"h1"}, Commands, VelInputs, ArmInputs, {0})
    \/ GatewaySteps({"h1"}, {})
    \/ TickSvc

SpecCommands == InitServing /\ [][NextCommands]_vars

\* the control thread of the serving robot with cycles that raise, a client
\* that sets velocities, and disconnect or loss of the connection
NextLoopFail ==
    \/ ServiceCalls({"h1"}, {"forward"}, {<<0, -1, 5>>},
                    {("arm_gripper.pos" :> 50)}, {0})
    \/ GatewaySteps({"h1"}, {})
    \/ LoopSteps({"l1"})
    \/ LoopFailSteps({"l1"})
    \/ DisconnectSteps({"h2"})
    \/ TickSvc

SpecLoopFail == InitServing /\ [][NextLoopFail]_vars

\* the serving robot and a client whose timed moves overlap
NextOverlap ==
    \/ ServiceCalls({"h1"}, {"forward"}, {<<0, -1, 5>>},
                    {("arm_gripper.pos" :> 50)}, {0, 1})
    \/ GatewaySteps({"h1"}, Tasks)
    \/ TaskSteps(Tasks)
    \/ TickSvc

SpecOverlap == InitServing /\ [][NextOverlap]_vars

\* a client that calls the dual-arm operations between commands to the
\* single-arm robot, which may be disconnected meanwhile
NextDualArm ==
    \/ DualArmCalls({"h1"})
    \/ ServiceCalls({"h1"}, {"forward"}, {<<0, -1, 5>>},
                    {("arm_gripper.pos" :> 50)}, {0})
    \/ GatewaySteps({"h1"}, {})
    \/ DisconnectSteps({"h2"})
    \/ TickSvc

SpecDualArm == InitServing /\ [][NextDualArm]_vars

\* a client that sets joint positions while servo parameter writes raise, the
\* configured ratio is changed, and the robot is disconnected or lost
NextServo ==
    \/ ServiceCalls({"h1"}, {"forward"}, {<<0, -1, 5>>},
                    {("arm_gripper.pos" :> 50)}, {0})
    \/ GatewaySteps({"h1"}, {})
    \/ ServoSteps({"h1"}, FailInputs)
    \/ SpeedSteps(SpeedInputs)
    \/ DisconnectSteps({"h2"})
    \/ TickSvc

SpecServo == InitServing /\ [][NextServo]_vars

\* one browser's session requests and /control requests in front of the
\* serving robot and its control thread
NextLocks ==
    \/ login("b1", "alice") /\ UNCHANGED svcVars
    \/ index("b1") /\ UNCHANGED svcVars
    \/ exit_control("b1") /\ UNCHANGED svcVars
    \/ MovementSteps({"h1"}, {"b1"}, WebInputs)
    \/ GatewaySteps({"h1"}, {})
    \/ LoopSteps({"l1"})

SpecLocks == InitServing /\ [][NextLocks]_vars

\* the movement switch in front of the serving robot: /control requests are
\* handled by thread h1, /stopmove requests by thread h2
NextGate ==
    \/ start_move /\ UNCHANGED arbVars
    \/ stop_move("h2") /\ UNCHANGED arbVars
    \/ \E d \in WebInputs : control_robot("h1", "b1", d) /\ UNCHANGED arbVars
    \/ \E c \in Callers : Dispatch(c) /\ UNCHANGED arbVars
    \/ GatewaySteps(Callers, {})
    \/ TickSvc

SpecGate == InitServing /\ [][NextGate]_vars

\* the serving robot is disconnected and connected again while a client sends
\* commands and the control threads run
NextReconnect ==
    \/ Invoke("h1", "predefined", <<"forward">>, FALSE, 0) /\ UNCHANGED arbVars
    \/ GwWrite("h1") /\ UNCHANGED arbVars
    \/ GwStamp("h1") /\ UNCHANGED arbVars
    \/ GwReturn("h1", {}) /\ UNCHANGED arbVars
    \/ ConnectSteps({"h2"}, ZeroObservation, Loops)
    \/ DisconnectSteps({"h2"})
    \/ LoopSteps(Loops)
    \/ TickSvc

SpecReconnect == InitServing /\ [][NextReconnect]_vars

\* ===================================================== session arbiter claims
\* the session id a browser holds after it was made owner
OwnerIdOf(b) == IF cookies[b].user_id = None THEN uuid4(b) ELSE cookies[b].user_id

\* C3: while another session id holds an active normal session (elapsed <
\* T_normal), a request to the index route is answered 429 (granted=false) and
\* the owner id, owner name, start time and privilege flag stay as they were.
C3_OtherRequestDenied ==
    [][\A b \in Browsers :
         (/\ index(b)
          /\ cookies[b].username # None
          /\ SessionFor(b, now) = "other")
         => (resp'.status = 429 /\ active_user' = active_user)]_vars

C3_Witness ==
    /\ resp.route = "index" /\ resp.status = 429 /\ resp.met = "other"
    /\ now - active_user.start_time > 0
    /\ cookies[resp.caller].username # active_user.username

\* C4: whatever session the arbiter holds (none, another id's active normal or
\* VIP session, an expired one), the /vip route makes the caller the owner with
\* is_vip set and start_time = now, and the caller's name is not in the queue.
C4_VipAlwaysSeizes ==
    (resp.route = "vip" /\ cookies[resp.caller].username # None) =>
        /\ resp.status = 200
        /\ cookies[resp.caller].user_id # None
        /\ active_user = [id |-> cookies[resp.caller].user_id,
                          start_time |-> now,
                          username |-> cookies[resp.caller].username,
                          is_vip |-> TRUE]
        /\ ~InList(waiting_users, cookies[resp.caller].username)

C4_Witness ==
    /\ resp.route = "vip" /\ resp.status = 200 /\ resp.met = "other_vip"
    /\ active_user.id = cookies[resp.caller].user_id
    /\ waiting_users # <<>>

\* C5: a normal session granted at t0 and left alone is over at t0 + T_normal:
\* a request of another session id at any t >= t0 + T_normal is granted in the
\* call itself and makes the caller the owner with start_time = t, is_vip off.
C5_ExpiredSessionIsTaken ==
    [][\A b \in Browsers :
         (/\ index(b)
          /\ cookies[b].username # None
          /\ SessionFor(b, now) = "expired"
          /\ ~active_user.is_vip)
         => (/\ resp'.status = 200
             /\ active_user' = [id |-> OwnerIdOf(b), start_time |-> now,
                                username |-> cookies[b].username,
                                is_vip |-> FALSE])]_vars

C5_Witness ==
    /\ resp.route = "index" /\ resp.status = 200 /\ resp.met = "expired"
    /\ active_user.id = cookies[resp.caller].user_id
    /\ active_user.start_time = now /\ ~active_user.is_vip
    /\ now >= ArbTick + SESSION_TIMEOUT_SECONDS

\* C6: the waiting queue never holds the user name of the owner of the session
\* that is active.
C6_OwnerNotQueued ==
    (active_user.id # None /\
     now - active_user.start_time <
        (IF active_user.is_vip THEN VIP_SESSION_TIMEOUT_SECONDS
         ELSE SESSION_TIMEOUT_SECONDS))
    => ~InList(waiting_users, active_user.username)

\* C7: /exit_control from a caller that is not the owner answers 403 and leaves
\* the session and the waiting queue as they were.
C7_ReleaseOnlyByOwner ==
    [][\A b \in Browsers :
         (/\ exit_control(b)
          /\ ~(active_user.id # None /\ cookies[b].user_id = active_user.id))
         => (/\ resp'.status = 403
             /\ active_user' = active_user
             /\ waiting_users' = waiting_users)]_vars

\* ======================================================= robot service claims
\* the caller has written current_action and not yet returned
HasWritten(c) == call[c].pc \in {"stamp", "return"}

\* C1: a /control request of a browser that does not own the active session
\* never gets to write current_action.
C1_OnlyOwnerControls ==
    \A c \in Callers :
        (call[c].by # None /\ HasWritten(c)) => call[c].owner

\* C2: a cycle of the control loop that starts more than command_timeout_s after
\* the last update of last_command_time sends x.vel = y.vel = theta.vel = 0.
C2_StaleCycleSendsZero ==
    \A l \in Loops :
        (/\ loop[l].pc = "send"
         /\ loop[l].loop_start_time - last_command_time > command_timeout_s)
        => BaseOf(loop[l].action_to_send) = <<0, 0, 0>>

C2_Witness ==
    /\ loop["l1"].pc = "send"
    /\ loop["l1"].loop_start_time - last_command_time > command_timeout_s
    /\ last_command_time > 0
    /\ call["h1"].op = "velocity" /\ call["h1"].result = "ok"
    /\ task["t1"].pc = "idle"
    /\ BaseOf(loop["l1"].action_to_send) = <<0, 0, 0>>

\* the control threads that are inside a cycle
InCycle == {l \in Loops : loop[l].pc \in {"watchdog", "zero", "snapshot", "send"}}

\* C8: at most one control thread of the service executes cycles.
C8_SingleControlLoop == Cardinality(InCycle) <= 1

\* C9: a stop_after_duration thread that has finished has set the base
\* velocities to (0, 0, 0).
C9_TimedMoveEndsWithStop ==
    \A t \in Tasks : task[t].pc = "done" => task[t].stopped

\* C10: a gateway operation entered while the robot is not connected returns
\* the NotConnected failure, starts no timed move and leaves current_action and
\* last_command_time as they were; so does the stop of a timed move.
C10_NotConnectedRejected ==
    [][/\ \A c \in Callers :
            (/\ call[c].pc = "idle" /\ call'[c] # call[c]
             /\ call'[c].op \in {"predefined", "velocity", "arm"}
             /\ ~is_connected)
            => (/\ call'[c].pc = "idle"
                /\ call'[c].result = "NotConnected"
                /\ current_action' = current_action
                /\ last_command_time' = last_command_time
                /\ task' = task)
       /\ \A t \in Tasks :
            (task[t].pc = "stop" /\ task'[t] # task[t] /\ ~is_connected)
            => (/\ task'[t].pc = "done"
                /\ current_action' = current_action
                /\ last_command_time' = last_command_time)]_vars

C10_Witness ==
    /\ call["h1"].result = "NotConnected" /\ call["h1"].op = "velocity"
    /\ robot.created /\ ~robot.is_connected
    /\ BaseOf(current_action) # <<0, 0, 0>>
    /\ last_command_time > 0

\* the triple the interface assigns to a command name
MappedTriple(name) ==
    CASE name = "forward"      -> <<linear_speed, 0, 0>>
      [] name = "backward"     -> <<0 - linear_speed, 0, 0>>
      [] name = "left"         -> <<0, linear_speed, 0>>
      [] name = "right"        -> <<0, 0 - linear_speed, 0>>
      [] name = "rotate_left"  -> <<0, 0, angular_speed>>
      [] name = "rotate_right" -> <<0, 0, 0 - angular_speed>>
      [] name = "stop"         -> <<0, 0, 0>>

\* the step of caller c that updates current_action under the lock
Writes(c, op) ==
    call[c].op = op /\ call[c].pc = "write" /\ call'[c].pc = "stamp"

\* C11: whatever current_action held before, the update made by a predefined
\* command leaves (x.vel, y.vel, theta.vel) equal to the triple mapped to its
\* name, and every joint axis as it was.
C11_CommandSetsMappedTriple ==
    [][\A c \in Callers :
         Writes(c, "predefined")
         => (/\ BaseOf(current_action') = MappedTriple(call[c].arg[1])
             /\ \A j \in LEKIWI_ARM_JOINTS :
                    current_action'[j] = current_action[j])]_vars

C11_Witness ==
    /\ call["h1"].op = "predefined" /\ call["h1"].pc = "stamp"
    /\ call["h1"].arg = <<"rotate_left">>
    /\ BaseOf(current_action) = <<0, 0, angular_speed>>
    /\ current_action["arm_gripper.pos"] = 50
    /\ current_action["arm_shoulder_pan.pos"] = 10

\* ===================================================== session arbiter, continued
\* C12 as stated: a request to the index route by the owner of the active
\* session is granted and restarts the session: start_time becomes now and is_vip
\* is cleared.
C12_OwnerRequestResetsSession ==
    [][\A b \in Browsers :
         (/\ index(b)
          /\ cookies[b].username # None
          /\ SessionFor(b, now) = "own")
         => (/\ resp'.status = 200
             /\ active_user'.id = active_user.id
             /\ active_user'.start_time = now
             /\ ~active_user'.is_vip)]_vars

\* C12 as the code has it: a request to the index route by the owner of the
\* active session is granted and keeps the owner id, the start time and the
\* privilege flag; only the owner name is set to the caller's name, which is
\* then not in the queue.
C12_OwnerRequestKeepsSession ==
    [][\A b \in Browsers :
         (/\ index(b)
          /\ cookies[b].username # None
          /\ SessionFor(b, now) = "own")
         => (/\ resp'.status = 200
             /\ active_user' = [id |-> active_user.id,
                                 start_time |-> active_user.start_time,
                                 username |-> cookies[b].username,
                                 is_vip |-> active_user.is_vip]
             /\ \A i \in 1..Len(waiting_users') :
                    waiting_users'[i] # cookies[b].username)]_vars

C12_Witness ==
    /\ resp.route = "index" /\ resp.status = 200 /\ resp.met = "own"
    /\ active_user.id = cookies[resp.caller].user_id
    /\ active_user.start_time < now
    /\ active_user.is_vip

\* C13: a request to the index route by the session id that owns the session,
\* active or expired, is granted, and that session id owns an active session
\* afterwards.
C13_OwnerAlwaysGranted ==
    [][\A b \in Browsers :
         (/\ index(b)
          /\ cookies[b].username # None
          /\ SessionFor(b, now) \in {"own", "expired_own"})
         => (/\ resp'.status = 200
             /\ active_user'.id = cookies[b].user_id
             /\ cookies'[b].user_id = cookies[b].user_id
             /\ now - active_user'.start_time <
                    (IF active_user'.is_vip THEN VIP_SESSION_TIMEOUT_SECONDS
                     ELSE SESSION_TIMEOUT_SECONDS))]_vars

C13_Witness ==
    /\ resp.route = "index" /\ resp.status = 200 /\ resp.met = "expired_own"
    /\ active_user.id = cookies[resp.caller].user_id
    /\ active_user.start_time = now

\* C14: the queue never holds a name twice; two names that stay in the queue
\* keep their order; the queue grows only by one name appended at its end; a
\* request to / or /wait by a name that is already waiting adds no entry.
C14_QueueDistinctAndOrdered ==
    [][LET q == waiting_users
           r == waiting_users'
       IN  /\ \A i, j \in 1..Len(r) : i # j => r[i] # r[j]
           /\ \A i, j \in 1..Len(q) : \A k, m \in 1..Len(r) :
                  (i < j /\ r[k] = q[i] /\ r[m] = q[j]) => k < m
           /\ Len(r) > Len(q) => r = q \o <<r[Len(r)]>>
           /\ \A b \in Browsers :
                  (/\ index(b) \/ wait(b)
                   /\ \E i \in 1..Len(q) : q[i] = cookies[b].username)
                  => Len(r) <= Len(q)]_vars

C14_Witness ==
    /\ resp.route = "index" /\ resp.status = 429
    /\ Len(waiting_users) = 2
    /\ waiting_users[1] = cookies[resp.caller].username
    /\ waiting_users[2] # waiting_users[1]

\* C15: /session_info reports is_active_user exactly to the session id that owns
\* a session with elapsed < timeout (one id at most, the one stored in
\* _active_user); to every other caller, and when no session is active, it
\* reports remaining_seconds = 0; once the session is over it names no owner;
\* and it leaves the session, the queue and the cookies as they were.
C15_SessionInfoIsReadOnlySnapshot ==
    [][\A b \in Browsers :
         session_info(b)
         => LET body == resp'.body
                met == SessionFor(b, now)
            IN  /\ body.is_active_user <=> (met = "own")
                /\ met = "own" =>
                      /\ body.remaining_seconds > 0
                      /\ body.remaining_seconds =
                            (IF active_user.is_vip
                             THEN VIP_SESSION_TIMEOUT_SECONDS
                             ELSE SESSION_TIMEOUT_SECONDS)
                            - (now - active_user.start_time)
                /\ met # "own" => body.remaining_seconds = 0
                /\ met \in {"none", "expired", "expired_own"} =>
                      (body.current_owner = None /\ ~body.is_vip)
                /\ \A b2 \in Browsers :
                      (met = "own" /\ SessionFor(b2, now) = "own")
                      => cookies[b2].user_id = cookies[b].user_id
                /\ active_user' = active_user
                /\ waiting_users' = waiting_users
                /\ cookies' = cookies]_vars

C15_Witness ==
    /\ resp.route = "session_info" /\ resp.met = "own"
    /\ resp.body.is_active_user
    /\ resp.body.remaining_seconds > 0
    /\ resp.body.remaining_seconds < resp.body.session_timeout
    /\ resp.body.current_owner = active_user.username

\* C16: while a VIP session of another session id has run for less than T_vip,
\* also when it has run for T_normal or longer, a request to the index route is
\* answered 429 and the session stays as it was; from T_vip on the request is
\* granted and the caller's new session is a normal one.
C16_VipSessionLastsLonger ==
    [][\A b \in Browsers :
         (/\ index(b)
          /\ cookies[b].username # None
          /\ active_user.id # None /\ active_user.start_time > 0
          /\ active_user.is_vip
          /\ cookies[b].user_id # active_user.id)
         => IF now - active_user.start_time < VIP_SESSION_TIMEOUT_SECONDS
            THEN resp'.status = 429 /\ active_user' = active_user
            ELSE /\ resp'.status = 200
                 /\ active_user' = [id |-> OwnerIdOf(b), start_time |-> now,
                                     username |-> cookies[b].username,
                                     is_vip |-> FALSE]]_vars

C16_Witness ==
    /\ resp.route = "index" /\ resp.status = 429 /\ resp.met = "other_vip"
    /\ active_user.is_vip
    /\ now - active_user.start_time >= SESSION_TIMEOUT_SECONDS
    /\ cookies[resp.caller].user_id # active_user.id

\* ======================================================= robot service, continued
\* the step of caller c that sets last_command_time and releases the lock
Stamps(c, op) ==
    call[c].op = op /\ call[c].pc = "stamp" /\ call'[c].pc = "return"

\* C17: execute_custom_velocity(x, y, theta) holds the lock from its update to
\* its time stamp. The snapshot after the update equals the snapshot before it
\* except that the base axes are (x, y, theta); the time stamp leaves the
\* action as it is and sets last_command_time to the time of the call.
C17_VelocityRoundTrip ==
    [][\A c \in Callers :
         /\ Writes(c, "velocity") =>
              /\ lock = None /\ lock' = c
              /\ get_status'.current_action =
                    [k \in Axes |->
                        CASE k = "x.vel" -> call[c].arg[1]
                          [] k = "y.vel" -> call[c].arg[2]
                          [] k = "theta.vel" -> call[c].arg[3]
                          [] OTHER -> get_status.current_action[k]]
              /\ get_status'.last_command_time = get_status.last_command_time
         /\ Stamps(c, "velocity") =>
              /\ lock = c /\ lock' = None
              /\ get_status'.current_action = get_status.current_action
              /\ BaseOf(get_status'.current_action) =
                    <<call[c].arg[1], call[c].arg[2], call[c].arg[3]>>
              /\ get_status'.last_command_time = now]_vars

C17_Witness ==
    /\ call["h1"].op = "velocity" /\ call["h1"].pc = "return"
    /\ call["h1"].arg = <<0, -1, 5>>
    /\ BaseOf(get_status.current_action) = <<0, -1, 5>>
    /\ get_status.current_action["arm_gripper.pos"] = 50
    /\ get_status.last_command_time = now
    /\ now > ArbTick

\* C18: current_action has the axes of _init_action_dict in every state.
\* set_arm_position overwrites the axes named in its mapping, leaves every other
\* axis as it was, ignores a key that is no axis, and goes on to its time stamp
\* without a failure.
C18_ArmPositionFrame ==
    [][/\ DOMAIN current_action' = Axes
       /\ \A c \in Callers :
            (call[c].op = "arm" /\ call[c].pc = "write" /\ call'[c] # call[c])
            => (/\ call'[c].pc = "stamp"
                /\ \A k \in Axes :
                      current_action'[k] =
                        IF k \in DOMAIN call[c].arg THEN call[c].arg[k]
                        ELSE current_action[k])]_vars

C18_Witness ==
    /\ call["h1"].op = "arm" /\ call["h1"].pc = "return"
    /\ "bogus.pos" \in DOMAIN call["h1"].arg
    /\ "bogus.pos" \notin DOMAIN current_action
    /\ current_action["arm_shoulder_pan.pos"] = 10
    /\ current_action["arm_gripper.pos"] = 0
    /\ BaseOf(current_action) = <<0, -1, 5>>

\* C19: a step of a control thread leaves last_command_time and every joint axis
\* as they were; the watchdog's update sets the three base axes to 0.
C19_WatchdogTouchesBaseOnly ==
    [][\A l \in Loops :
         loop'[l] # loop[l]
         => (/\ last_command_time' = last_command_time
             /\ \A j \in LEKIWI_ARM_JOINTS :
                    current_action'[j] = current_action[j]
             /\ (loop[l].pc = "zero" /\ loop'[l].pc = "snapshot")
                    => BaseOf(current_action') = <<0, 0, 0>>
             /\ ~(loop[l].pc = "zero" /\ loop'[l].pc = "snapshot")
                    => current_action' = current_action)]_vars

C19_Witness ==
    /\ loop["l1"].pc = "snapshot"
    /\ loop["l1"].loop_start_time - last_command_time > command_timeout_s
    /\ last_command_time > 0
    /\ call["h1"].op = "velocity" /\ call["h1"].result = "ok"
    /\ task["t1"].pc = "idle"
    /\ BaseOf(current_action) = <<0, 0, 0>>
    /\ current_action["arm_gripper.pos"] = 50

\* C20: a cycle that raises sends the control thread back to the while test;
\* the thread ends only at a while test that finds the run flag cleared or the
\* robot not connected, and a while test that finds both set starts a cycle.
C20_FailedCycleKeepsLoopRunning ==
    [][\A l \in Loops :
         /\ LoopCycleFails(l) => loop'[l].pc = "test"
         /\ (loop[l].pc # "stopped" /\ loop'[l].pc = "stopped")
                => (loop[l].pc = "test" /\ ~(running /\ is_connected))
         /\ (loop[l].pc = "test" /\ loop'[l] # loop[l]
                /\ running /\ is_connected)
                => loop'[l].pc = "watchdog"]_vars

C20_Witness ==
    /\ loop["l1"].pc = "send"
    /\ loop["l1"].failures = MaxFailures
    /\ MaxFailures >= 2
    /\ running /\ is_connected
    /\ BaseOf(loop["l1"].action_to_send) = <<0, -1, 5>>

\* ================================================== locking and the watchdog clock
\* C21: a caller that reads current_action for the copy in its result holds
\* the lock.
C21_AccessUnderLock ==
    \A c \in Callers :
        (call[c].pc = "return" /\ call[c].op \in {"predefined", "velocity", "arm"})
        => lock = c

\* C22: no step of a gateway call or of a timed move's refresh thread moves
\* last_command_time backwards.
C22_ClockNeverGoesBack == [][last_command_time' >= last_command_time]_vars

\* both timed moves are refreshing, the clock was stamped after the service
\* started serving, and a gateway call is about to stamp it again
C22_Witness ==
    /\ \A t \in Tasks : task[t].pc = "check" /\ now < task[t].end_time
    /\ call["h1"].pc = "stamp"
    /\ last_command_time = now
    /\ now > ArbTick

\* C23: on the single-arm robot a call of set_left_arm_position,
\* set_right_arm_position, set_dual_arm_position or mirror_arm_position ends at
\* once with NotApplicable and changes neither current_action nor
\* last_command_time, whether the robot is connected or not.
C23_DualArmNotApplicable ==
    [][\A c \in Callers :
        (\/ \E op \in DualArmOps, m \in DualArmInputs : DualArmCall(c, op, m)
         \/ \E s \in SourceArms : DualArmCall(c, "mirror_arm_position", s))
        => /\ call'[c].pc = "idle"
           /\ call'[c].result = "NotApplicable"
           /\ current_action' = current_action
           /\ last_command_time' = last_command_time
           /\ UNCHANGED <<lock, task, servo, robot>>]_vars

\* mirror_arm_position was refused on a disconnected robot whose ActionState
\* and clock hold what earlier commands left
C23_Witness ==
    /\ ~is_connected
    /\ call["h1"].op = "mirror_arm_position"
    /\ call["h1"].result = "NotApplicable"
    /\ current_action["arm_gripper.pos"] = 50
    /\ BaseOf(current_action) = <<0, -1, 5>>
    /\ last_command_time > ArbTick

\* C24: a control thread zeroes the base velocities only in a state in which
\* last_command_time is older than command_timeout_s.
C24_ZeroOnlyWhenStale ==
    [][\A l \in Loops :
        (loop[l].pc = "zero" /\ loop'[l].pc = "snapshot") => stale(now)]_vars

\* ============================================================== timed moves
\* C25: when the thread of a timed move has applied its final stop, the base
\* velocities are (0, 0, 0), whatever command was applied while the thread was
\* waiting.
C25_FinalStopOverwrites ==
    \A t \in Tasks :
        task[t].pc = "stop_stamp" => BaseOf(current_action) = <<0, 0, 0>>

\* the first timed move has applied its stop while the second one, started
\* with a velocity during the first, is still waiting for its own end
C25_Witness ==
    /\ task["t1"].pc = "stop_stamp"
    /\ task["t2"].pc = "check"
    /\ now < task["t2"].end_time
    /\ task["t1"].end_time - task["t1"].duration < task["t2"].end_time - task["t2"].duration
    /\ call["h1"].op = "velocity"
    /\ call["h1"].result = "ok"
    /\ BaseOf(current_action) = <<0, 0, 0>>

\* ======================================================== the control thread
\* C26: once disconnect() has cleared the run flag, a control thread that
\* reaches its while test ends there and stays ended; a cycle begins only at a
\* while test that found the flag set, and every dispatch is followed by the
\* while test, so at most the cycle in progress is dispatched after the flag
\* was cleared.
C26_CooperativeStop ==
    [][\A l \in Loops :
         /\ (~running /\ loop[l].pc = "test" /\ loop'[l] # loop[l])
                => loop'[l].pc = "stopped"
         /\ (loop[l].pc # "watchdog" /\ loop'[l].pc = "watchdog")
                => (loop[l].pc = "test" /\ running)
         /\ (loop[l].pc = "send" /\ loop'[l] # loop[l])
                => loop'[l].pc = "test"
         /\ loop[l].pc = "stopped" => loop'[l].pc = "stopped"]_vars

\* the thread has ended on the cleared flag while the robot is still
\* connected: disconnect() has not yet reached robot.disconnect()
C26_Witness ==
    /\ loop["l1"].pc = "stopped"
    /\ ~running
    /\ is_connected
    /\ call["h2"].pc = "hw_disconnect"

\* ========================================================= unknown commands
\* C27: a predefined command with an unknown name ends with UnknownCommand,
\* leaves last_command_time and every value of current_action as they were,
\* and starts no thread for a timed move.
C27_UnknownCommandChangesNothing ==
    [][\A c \in Callers :
        (call[c].pc = "write" /\ call[c].op = "predefined"
            /\ call[c].arg[1] \notin Commands /\ call'[c] # call[c])
        => /\ call'[c].pc = "idle"
           /\ call'[c].result = "UnknownCommand"
           /\ last_command_time' = last_command_time
           /\ current_action' = current_action
           /\ task' = task]_vars

\* ======================================================= servo configuration
\* C28: a servo configuration attempts the parameter writes of every arm
\* motor, whichever of them raise, and the set_arm_position call around it goes
\* on to update current_action, stamp last_command_time and return success.
C28_ServoFailuresTolerated ==
    [][\A c \in Callers :
        (call[c].op = "arm" /\ call'[c] # call[c])
        => /\ (call[c].pc = "push" /\ is_connected)
                => /\ call'[c].pc = "write"
                   /\ servo'.attempted = {arm_motors[i] : i \in 1..Len(arm_motors)}
                   /\ servo'.failed \subseteq servo'.attempted
           /\ call[c].pc = "write"
                => /\ call'[c].pc = "stamp"
                   /\ current_action' = SetJoints(current_action, call[c].arg)
           /\ call[c].pc = "stamp"
                => (call'[c].pc = "return" /\ last_command_time' = now)
           /\ call[c].pc = "return"
                => (call'[c].pc = "idle" /\ call'[c].result = "ok")]_vars

\* the writes of two motors raised, the last motor among them, and the call
\* has written the gripper position and stamped the clock
C28_Witness ==
    /\ call["h1"].op = "arm"
    /\ call["h1"].result = "ok"
    /\ servo.failed = {"arm_shoulder_pan", "arm_gripper"}
    /\ "arm_wrist_roll" \in servo.attempted \ servo.failed
    /\ current_action["arm_gripper.pos"] = 50
    /\ last_command_time = now

\* C29 as stated: a joint-position write pushes the servo parameters exactly
\* when it is the first write of the service or the first write since the
\* configured ratio was assigned.
C29_PushAfterEachChange ==
    [][\A c \in Callers :
        (call[c].pc = "configure" /\ call'[c] # call[c])
        => (call'[c].pc = "push" <=> servo.ratio_changed)]_vars

\* C29: a joint-position write goes to the servo configuration exactly when
\* the memo does not hold the configured ratio (no memo yet, or another
\* ratio); the configuration runs before the write's update of current_action
\* and without the lock, writes the parameters if the robot is connected at
\* that moment, and records the ratio in the memo; the parameters are written
\* at no other step.
C29_PushWhenMemoDiffers ==
    [][/\ \A c \in Callers :
            /\ (call[c].pc = "configure" /\ call'[c] # call[c])
                  => /\ call'[c].pc = "push"
                        <=> servo._arm_speed_configured # {servo.arm_servo_speed}
                     /\ call'[c].pc \in {"push", "write"}
                     /\ servo'.pushes = servo.pushes
            /\ (call[c].pc = "push" /\ call'[c] # call[c])
                  => /\ lock # c
                     /\ call'[c].pc = "write"
                     /\ current_action' = current_action
                     /\ servo'._arm_speed_configured = {servo.arm_servo_speed}
                     /\ servo'.pushes = servo.pushes + 1 <=> is_connected
       /\ servo'.pushes # servo.pushes
            => \E c \in Callers : call[c].pc = "push" /\ call'[c].pc = "write"]_vars

\* the ratio was changed and changed back between two joint-position writes:
\* the second write found the memo equal to the ratio and pushed nothing
C29_Witness ==
    /\ servo.changes = 2
    /\ servo.pushes = 1
    /\ servo.arm_servo_speed = arm_servo_speed
    /\ servo._arm_speed_configured = {arm_servo_speed}
    /\ ~servo.ratio_changed
    /\ call["h1"].op = "arm"
    /\ call["h1"].pc = "stamp"
    /\ is_connected

\* ==================================================================== locks
\* C30: a control thread that is in send_action and a caller that is writing
\* servo parameters do not hold the lock of current_action; a request that
\* works on the session state (under _active_user_lock) neither takes that
\* lock nor moves a call of the service, and a step that takes or releases
\* it leaves the session state alone.
C30_NoLockAcrossHardware ==
    [][/\ \A l \in Loops : loop'[l].pc = "send" => lock' # l
       /\ \A c \in Callers : call'[c].pc = "push" => lock' # c
       /\ arbVars' # arbVars => UNCHANGED <<lock, call, current_action>>
       /\ lock' # lock => UNCHANGED arbVars]_vars

\* the control thread is in send_action while a call made for the session's
\* owner holds the lock between its update and its stamp
C30_Witness ==
    /\ loop["l1"].pc = "send"
    /\ lock = "h1"
    /\ call["h1"].pc = "stamp"
    /\ call["h1"].by = "b1"
    /\ active_user.id = uuid4("b1")

\* ================================================================ reconnect
\* the control threads that have been started and have not ended
LiveLoops == {l \in Loops : loop[l].pc \notin {"idle", "stopped"}}

\* C31: when connect() returns success, a control thread of the service is
\* alive.
C31_ConnectLeavesLoopRunning ==
    [][\A c \in Callers :
        (call[c].op = "connect" /\ call[c].pc # "idle"
            /\ call'[c].pc = "idle" /\ call'[c].result = "ok")
        => LiveLoops' # {}]_vars

\* ========================================================= the movement gate
\* a /stopmove request has completed and no /startmove was made since
GateClosed ==
    /\ ~movement_enabled
    /\ call["h2"].pc = "idle"
    /\ call["h2"].op = "predefined"

\* C32: while the gate is closed the /control thread makes no update of
\* current_action, and the base velocities are (0, 0, 0).
C32_ClosedGateBlocksControl ==
    [][/\ (GateClosed /\ call["h1"].pc = "write")
            => call'["h1"] = call["h1"]
       /\ GateClosed' => BaseOf(current_action') = <<0, 0, 0>>]_vars

\* C33: a control thread that copies current_action on a connected robot,
\* while the client's last call is one that was refused because the robot was
\* not connected (so no call has succeeded since the robot was connected
\* again), copies base velocities (0, 0, 0).
C33_NoOldVelocityAfterReconnect ==
    [][\A l \in Loops :
        (/\ loop[l].pc = "snapshot" /\ loop'[l].pc = "send"
         /\ is_connected
         /\ call["h1"].pc = "idle" /\ call["h1"].result = "NotConnected")
        => BaseOf(loop'[l].action_to_send) = <<0, 0, 0>>]_vars

\* ============================================================== succession
\* C34 as stated: when no session is active and the queue is not empty, GET /
\* is granted only to the name at the head of the queue.
C34_HeadOfQueueSucceeds ==
    [][\A b \in Browsers :
         (/\ index(b)
          /\ cookies[b].username # None
          /\ ~is_active(now)
          /\ waiting_users # <<>>
          /\ resp'.status = 200)
         => cookies[b].username = Head(waiting_users)]_vars

\* C34: when no session is active, GET / from any logged-in caller is granted
\* at once, whether its name is at the head of the queue, later in it or not
\* in it; the caller's name leaves the queue and the other names stay queued
\* in their order.
C34_FirstRequestSucceeds ==
    [][\A b \in Browsers :
         (/\ index(b)
          /\ cookies[b].username # None
          /\ ~is_active(now)
          /\ waiting_users # <<>>)
         => /\ resp'.status = 200
            /\ active_user'.id = OwnerIdOf(b)
            /\ active_user'.username = cookies[b].username
            /\ active_user'.start_time = now
            /\ waiting_users' =
                    SelectSeq(waiting_users,
                              LAMBDA u : u # cookies[b].username)]_vars

\* alice released the session while bob was queued and was granted again at
\* once, on the same tick; bob is still waiting
C34_Witness ==
    /\ resp.route = "index" /\ resp.status = 200 /\ resp.caller = "b1"
    /\ resp.met = "none"
    /\ cookies["b1"].username = "alice"
    /\ cookies["b2"].username = "bob"
    /\ active_user.id = cookies["b1"].user_id
    /\ active_user.start_time = now
    /\ waiting_users = <<"bob">>

\* ============================================== presence during a timed move
\* the timed moves whose thread has not yet reached its final stop
PendingMoves == {t \in Tasks : task[t].pc \in {"start", "check", "refresh"}}

\* C35: while a timed move is pending on a connected robot and the clock is
\* not older than command_timeout_s, no control thread zeroes the base
\* velocities.
C35_NoZeroDuringTimedMove ==
    [][\A l \in Loops :
        (/\ PendingMoves # {}
         /\ is_connected
         /\ ~stale(now)
         /\ loop[l].pc = "zero")
        => ~(loop'[l].pc = "snapshot"
             /\ BaseOf(current_action') # BaseOf(current_action))]_vars

====
